---- MODULE Spec2Model ----
(***************************************************************************)
(* Client-side upload orchestration of uploadthing:                        *)
(*   DANGEROUS__uploadFiles / uploadFile   (packages/uploadthing client)   *)
(*   fetchEffJson / exponentialBackoff     (packages/shared/src/effect.ts) *)
(*                                                                         *)
(* One call of DANGEROUS__uploadFiles is modelled: the request for the     *)
(* presigned descriptors, then Effect.all over one uploadFile pipeline per *)
(* descriptor (onUploadBegin, transport, 500ms sleep, poll with retry on   *)
(* the exponentialBackoff schedule).  Time is a millisecond clock that     *)
(* advances at the suspension points (sleeps and poll round trips).        *)
(***************************************************************************)
EXTENDS Integers, Sequences, FiniteSets, TLC

\* ---------------------------------------------------------------- bounds
MaxBatch == 2        \* at most this many presigned descriptors in the answer
MaxStill == 2        \* batch scenarios: "still waiting" answers per file
SlowPoll == 25000    \* round-trip time (ms) of a slow poll request

\* ------------------------------------------------------ program constants
BaseDelay    == 10       \* Schedule.exponential(Duration.millis(10), 4)
Factor       == 4
SpacedDelay  == 1000     \* Schedule.spaced(Duration.seconds(1))
MaxElapsed   == 60000    \* Duration.minutes(1)
PrePollDelay == 500      \* Effect.sleep(500)

\* ------------------------------------------------------------ input sets
Names == {"a", "b"}
Kinds == {"psp", "mpu"}          \* PSPResponse / MPUResponse ("urls" in it)
Data  == {"d1", "d2"}            \* callbackData payloads
Latencies == {0, SlowPoll}

\* opts.files of the batch scenarios, up to renaming of the files: one file,
\* two files of the same name, two files of different names
FileLists == {<<"a">>, <<"a", "a">>, <<"a", "b">>}

SeqsUpTo(S, lo, hi) == UNION {[1..n -> S] : n \in lo..hi}

Descriptors == [fileName : Names, kind : Kinds]

\* an element of the server's answer: one of the two shapes, or neither
Shapes == Kinds \cup {"invalid"}
RawDescriptors == [fileName : Names, kind : Shapes]

\* what one poll request can come back with
PollReplies ==
    {[status |-> "done", callbackData |-> d] : d \in Data}
      \cup {[status |-> s, callbackData |-> "none"] :
              s \in {"still waiting", "other status", "not json", "fetch failed"}}

NoReply == [status |-> "none", callbackData |-> "none"]

NoResult == [name |-> "none", size |-> 0, key |-> 0, serverData |-> "none"]

\* file.size of the k-th file of opts.files: every file has its own size
FileSize(k) == 1000 + k

VARIABLES
    files,        \* opts.files: sequence of file names
    response,     \* the descriptors the server answers the upload request with
    presigneds,   \* the decoded descriptors (empty until the answer is in)
    env,          \* environment: latencies of polls, patience of the endpoint
    phase,        \* "init" | "running" | "resolved" | "rejected"
    batchErr,     \* the error the call fails with ("none" while there is none)
    returned,     \* the array the call resolves with
    task,         \* per descriptor: the state of its uploadFile pipeline
    now,          \* clock, ms
    cancelRequested  \* the caller has given up the call and wants it stopped

vars == <<files, response, presigneds, env, phase, batchErr, returned, task,
          now, cancelRequested>>

Idx == 1..Len(presigneds)

NewTask ==
    [pc          |-> "pending",  \* pending|transport|sleep|polling|backoff|done|failed
     fileIdx     |-> 0,          \* index in opts.files of the matched file
     begun       |-> 0,          \* onUploadBegin invocations
     transport   |-> "none",     \* transport invoked: none|psp|mpu
     transportOk |-> "none",     \* none|ok|failed
     transportAt |-> -1,         \* time the transport succeeded
     pollCount   |-> 0,          \* poll requests issued
     stillCount  |-> 0,          \* "still waiting" answers received
     firstPollAt |-> -1,
     lastPollAt  |-> -1,         \* time the last poll was issued
     lastReply   |-> NoReply,    \* the last poll answer
     schedStart  |-> -1,         \* Schedule.elapsed state (-1: None)
     retries     |-> 0,          \* Schedule.forever counter inside exponential
     elapsedAt   |-> -1,         \* output of Schedule.elapsed at the last step
     waits       |-> << >>,      \* the backoff waits so far
     err         |-> "none",
     serverData  |-> "none",
     events      |-> << >>,      \* callback and transport invocations, in order
     result      |-> NoResult]   \* the UploadFileResponse uploadFile returns

\* ------------------------------------------------- effect.ts, pure parts

\* fetchEffJson: fetch, res.json(), Schema.decode(PollingResponse)
FetchEffJson(reply) ==
    IF reply.status \in {"fetch failed", "not json"}
      THEN [ok |-> FALSE, error |-> "FetchError", value |-> NoReply]
    ELSE IF reply.status \notin {"done", "still waiting"}
      THEN [ok |-> FALSE, error |-> "ParseError", value |-> NoReply]
    ELSE [ok |-> TRUE, error |-> "none", value |-> reply]

\* an element decodes when it has the single-part or the multi-part shape
ValidDescriptor(d) == d.kind \in Kinds

\* fetchEffJson on the upload request: Schema.decode of the whole array
\* fails when one element does not decode
DecodeResponse_NoDecode(resp) ==
    [ok |-> TRUE, error |-> "none", value |-> resp]

DecodeResponse(resp) ==
    IF \A i \in 1..Len(resp) : ValidDescriptor(resp[i])
      THEN [ok |-> TRUE, error |-> "none", value |-> resp]
      ELSE [ok |-> FALSE, error |-> "ParseError", value |-> << >>]

\* Schedule.exponential(10ms, 4): the delay of the step with counter n.
\* andThenEither(spaced(1s)) only takes over when exponential is done,
\* and Schedule.exponential never is.
ExponentialDone(n) == FALSE

BackoffDelay_FactorOffByOne(n) == BaseDelay * Factor ^ (n + 1)

BackoffDelay(n) ==
    IF ExponentialDone(n) THEN SpacedDelay ELSE BaseDelay * Factor ^ n

\* Schedule.whileOutput(Duration.lessThanOrEqualTo(Duration.minutes(1)))
ScheduleContinues_Hours(elapsed) == elapsed <= 60 * MaxElapsed

ScheduleContinues(elapsed) == elapsed <= MaxElapsed

\* Effect.retry({ while: (res) => res instanceof RetryError, ... })
RetryWhile_Any(error) == TRUE

RetryWhile(error) == error = "RetryError"


\* ------------------------------------------------ uploadFile, pure parts

\* opts.files.find((f) => f.name === presigned.fileName): first match, 0 if none
FindFile_FallbackToFirst(fs, name) ==
    IF \E k \in 1..Len(fs) : fs[k] = name
      THEN CHOOSE k \in 1..Len(fs) :
             fs[k] = name /\ \A m \in 1..(k - 1) : fs[m] # name
      ELSE 1

FindFile(fs, name) ==
    IF \E k \in 1..Len(fs) : fs[k] = name
      THEN CHOOSE k \in 1..Len(fs) :
             fs[k] = name /\ \A m \in 1..(k - 1) : fs[m] # name
      ELSE 0

\* if ("urls" in presigned) multipart else presigned POST
SelectTransport_AlwaysPost(p) == "psp"

SelectTransport(p) == IF p.kind = "mpu" THEN "mpu" ELSE "psp"

\* opts.onUploadBegin?.({ file: file.name }), then the transport is invoked
BeginEvents_TransportFirst(name, p) ==
    <<[ev |-> "transport", arg |-> SelectTransport(p)],
      [ev |-> "onUploadBegin", arg |-> name]>>

BeginEvents(name, p) ==
    <<[ev |-> "onUploadBegin", arg |-> name],
      [ev |-> "transport", arg |-> SelectTransport(p)]>>

\* yield* $(Effect.sleep(500)) before the first poll
FirstPollTime_NoSleep(t) == t

FirstPollTime(t) == t + PrePollDelay

\* yield* of the transport effect: its failure fails uploadFile
AfterTransport_SwallowFailure(ok) == "sleep"

AfterTransport(ok) == IF ok THEN "sleep" ELSE "failed"

\* res.status === "done" ? Effect.succeed(res.callbackData)
\*                       : Effect.fail(new RetryError())
PollResult_StatusAsData(res) ==
    IF res.status = "done"
      THEN [ok |-> TRUE, error |-> "none", value |-> res.status]
      ELSE [ok |-> FALSE, error |-> "RetryError", value |-> "none"]

PollResult(res) ==
    IF res.status = "done"
      THEN [ok |-> TRUE, error |-> "none", value |-> res.callbackData]
      ELSE [ok |-> FALSE, error |-> "RetryError", value |-> "none"]

\* one attempt of the retried effect: fetchEffJson, then PollResult
PollAttempt(reply) ==
    LET r == FetchEffJson(reply)
    IN  IF r.ok THEN PollResult(r.value)
        ELSE [ok |-> FALSE, error |-> r.error, value |-> "none"]

\* the object uploadFile returns (presigned.key is the descriptor's index)
UploadFileResponse_ByPosition(t, i) ==
    LET k == IF i <= Len(files) THEN i ELSE t[i].fileIdx
    IN  [name |-> files[k], size |-> FileSize(k),
         key |-> i, serverData |-> t[i].serverData]

UploadFileResponse(t, i) ==
    [name |-> files[t[i].fileIdx], size |-> FileSize(t[i].fileIdx),
     key |-> i, serverData |-> t[i].serverData]

\* ------------------------------------- DANGEROUS__uploadFiles, pure parts

\* Effect.all(presigneds.map(...)) without a concurrency option runs the
\* effects one after the other: the i-th starts when all before it succeeded
PipelineEnabled_ContinueAfterFailure(t, i) ==
    \A j \in 1..(i - 1) : t[j].pc \in {"done", "failed"}

PipelineEnabled(t, i) == \A j \in 1..(i - 1) : t[j].pc = "done"

\* uploadFiles.pipe(catchTag("UTReporterError", die), tapErrorCause(logError),
\* provide(layer), runPromise): the error of the effect rejects the promise
\* as it is, nothing maps it to another error
EscapingError(e) == e

BatchPhase(t) ==
    IF \E i \in DOMAIN t : t[i].pc = "failed" THEN "rejected"
    ELSE IF \A i \in DOMAIN t : t[i].pc = "done" THEN "resolved"
    ELSE "running"

\* Effect.all fails with the error of the effect that failed
BatchError(t) ==
    IF \E i \in DOMAIN t : t[i].pc = "failed"
      THEN LET i == CHOOSE i \in DOMAIN t :
                      t[i].pc = "failed"
                      /\ \A j \in DOMAIN t : t[j].pc = "failed" => i <= j
           IN  EscapingError(t[i].err)
      ELSE "none"

\* ... and succeeds with the array of all results, in the order of the input
BatchValue_Settled(t) ==
    LET done == {i \in DOMAIN t : t[i].pc = "done"}
    IN  IF BatchPhase(t) = "running" THEN << >>
        ELSE [k \in 1..Cardinality(done) |->
                t[CHOOSE i \in done :
                     Cardinality({j \in done : j < i}) = k - 1].result]

BatchValue(t) ==
    IF BatchPhase(t) = "resolved"
      THEN [i \in DOMAIN t |-> t[i].result]
      ELSE << >>

\* --------------------------------------------------------------- states

InitCommon ==
    /\ phase = "init"
    /\ batchErr = "none"
    /\ returned = << >>
    /\ presigneds = << >>
    /\ task = << >>
    /\ now = 0
    /\ cancelRequested = FALSE

\* one file whose polling endpoint may stay "still waiting" for ever
\* and whose polls may be slow
InitPoll ==
    /\ \E n \in Names, k \in Kinds :
         /\ files = <<n>>
         /\ response = <<[fileName |-> n, kind |-> k]>>
    /\ env = [capped |-> FALSE, lat |-> Latencies]
    /\ InitCommon

\* any batch of files and descriptors, matching or not
InitBatch ==
    /\ files \in FileLists
    /\ response \in SeqsUpTo(RawDescriptors, 0, MaxBatch)
    /\ env = [capped |-> TRUE, lat |-> {0}]
    /\ InitCommon

Init == InitPoll \/ InitBatch

\* the pipelines moved to t: Effect.all settles the call accordingly
Settle(t) ==
    /\ task' = t
    /\ phase' = BatchPhase(t)
    /\ batchErr' = BatchError(t)
    /\ returned' = BatchValue(t)

\* -------------------------------------------------------------- actions

\* fetchEffJson(createAPIRequestUrl(...), uploadThingResponseSchema, ...):
\* the request fails (FetchError) or its JSON answer is decoded
RequestPresigned(outcome) ==
    /\ phase = "init"
    /\ LET r == IF outcome = "ok" THEN DecodeResponse(response)
                ELSE [ok |-> FALSE, error |-> outcome, value |-> << >>]
       IN  IF r.ok
             THEN /\ presigneds' = r.value
                  /\ Settle([i \in 1..Len(r.value) |-> NewTask])
             ELSE /\ phase' = "rejected"
                  /\ batchErr' = EscapingError(r.error)
                  /\ UNCHANGED <<presigneds, task, returned>>
    /\ UNCHANGED <<cancelRequested, files, response, env, now>>

\* uploadFile up to its first suspension: find the file, onUploadBegin,
\* start the transport
Begin(i) ==
    /\ task[i].pc = "pending"
    /\ PipelineEnabled(task, i)
    /\ LET k == FindFile(files, presigneds[i].fileName)
       IN  IF k = 0
             THEN Settle([task EXCEPT ![i].pc = "failed",
                                      ![i].err = "NOT_FOUND"])
             ELSE Settle([task EXCEPT ![i].pc = "transport",
                                      ![i].fileIdx = k,
                                      ![i].begun = @ + 1,
                                      ![i].events =
                                          @ \o BeginEvents(files[k], presigneds[i]),
                                      ![i].transport =
                                          SelectTransport(presigneds[i])])
    /\ UNCHANGED <<cancelRequested, files, response, presigneds, env, now>>

\* the transport effect completes, successfully or not
TransportEnd(i, ok) ==
    /\ task[i].pc = "transport"
    /\ Settle([task EXCEPT
                 ![i].pc = AfterTransport(ok),
                 ![i].transportOk = IF ok THEN "ok" ELSE "failed",
                 ![i].transportAt = IF ok THEN now ELSE @,
                 ![i].err = IF AfterTransport(ok) = "failed"
                              THEN "TransportError" ELSE @])
    /\ UNCHANGED <<cancelRequested, files, response, presigneds, env, now>>

\* Effect.sleep(500) ends and the first poll request is sent
FirstPoll(i) ==
    /\ task[i].pc = "sleep"
    /\ now' = FirstPollTime(now)
    /\ Settle([task EXCEPT ![i].pc = "polling",
                           ![i].pollCount = @ + 1,
                           ![i].firstPollAt = now',
                           ![i].lastPollAt = now'])
    /\ UNCHANGED <<cancelRequested, files, response, presigneds, env>>

\* a poll request comes back after d ms; Effect.retry decides what follows
PollResponse(i, reply, d) ==
    /\ task[i].pc = "polling"
    /\ reply.status = "still waiting" =>
          (~env.capped \/ task[i].stillCount < MaxStill)
    /\ now' = now + d
    /\ LET a       == PollAttempt(reply)
           start   == IF task[i].schedStart = -1 THEN now'
                      ELSE task[i].schedStart
           elapsed == now' - start
           seen    == [task EXCEPT
                         ![i].lastReply = reply,
                         ![i].stillCount =
                             IF reply.status = "still waiting" THEN @ + 1 ELSE @]
           got     == [seen EXCEPT ![i].serverData = a.value]
       IN  IF a.ok
             THEN Settle([got EXCEPT ![i].pc = "done",
                                     ![i].result = UploadFileResponse(got, i)])
           ELSE IF RetryWhile(a.error) /\ ScheduleContinues(elapsed)
             THEN Settle([seen EXCEPT
                            ![i].pc = "backoff",
                            ![i].schedStart = start,
                            ![i].elapsedAt = elapsed,
                            ![i].waits = Append(@, BackoffDelay(task[i].retries)),
                            ![i].retries = @ + 1])
           ELSE Settle([seen EXCEPT ![i].pc = "failed",
                                    ![i].schedStart = start,
                                    ![i].elapsedAt = elapsed,
                                    ![i].err = a.error])
    /\ UNCHANGED <<cancelRequested, files, response, presigneds, env>>

\* the backoff wait of the schedule ends and the effect is run again
RetryPoll(i) ==
    /\ task[i].pc = "backoff"
    /\ now' = now + task[i].waits[Len(task[i].waits)]
    /\ Settle([task EXCEPT ![i].pc = "polling",
                           ![i].pollCount = @ + 1,
                           ![i].lastPollAt = now'])
    /\ UNCHANGED <<cancelRequested, files, response, presigneds, env>>

\* the caller wants to cancel the running call.  UploadFilesOptions has no
\* abort signal and the promise of Effect.runPromise is returned without
\* one: the running effect is not told, nothing else changes
Cancel ==
    /\ phase = "running"
    /\ ~cancelRequested
    /\ cancelRequested' = TRUE
    /\ UNCHANGED <<files, response, presigneds, env, phase, batchErr,
                   returned, task, now>>

Next ==
    \/ \E o \in {"ok", "FetchError"} : RequestPresigned(o)
    \/ \E i \in Idx : Begin(i)
    \/ \E i \in Idx, ok \in BOOLEAN : TransportEnd(i, ok)
    \/ \E i \in Idx : FirstPoll(i)
    \/ \E i \in Idx, reply \in PollReplies, d \in env.lat : PollResponse(i, reply, d)
    \/ \E i \in Idx : RetryPoll(i)
    \/ Cancel

Spec == Init /\ [][Next]_vars

TypeOK ==
    /\ phase \in {"init", "running", "resolved", "rejected"}
    /\ \A i \in Idx : task[i].pc \in
         {"pending", "transport", "sleep", "polling", "backoff", "done", "failed"}


\* ---------------------------------------------------------- properties

Tasks == DOMAIN task

NoNewPoll(i) == task'[i].pollCount = task[i].pollCount

\* C1: a poll request for a descriptor is issued only after that
\* descriptor's transport has completed successfully (and not before the
\* moment it completed); after a failed transport no poll is ever issued
\* for it.
C1_PollOnlyAfterTransport ==
    \A i \in Tasks :
        /\ task[i].pollCount > 0 =>
              /\ task[i].transportOk = "ok"
              /\ task[i].transportAt <= task[i].firstPollAt
        /\ task[i].transportOk = "failed" => task[i].pollCount = 0

C1_Witness ==
    \E i, j \in Tasks :
        /\ task[i].pollCount > 0 /\ task[i].transportOk = "ok"
        /\ task[j].transportOk = "failed"

\* C2: when the endpoint answers "still waiting" to the first k polls and
\* "done" to poll k+1, the poller has issued exactly k+1 polls, the file's
\* serverData is the callbackData of the "done" answer, and no poll is
\* issued after the "done" answer.
C2_DoneState ==
    \A i \in Tasks :
        task[i].lastReply.status = "done" =>
            /\ task[i].pc = "done"
            /\ task[i].pollCount = task[i].stillCount + 1
            /\ task[i].serverData = task[i].lastReply.callbackData

C2_DoneStep ==
    \A i \in Tasks : task[i].lastReply.status = "done" => NoNewPoll(i)

C2_ExactlyKPlusOnePolls == []C2_DoneState /\ [][C2_DoneStep]_vars

C2_Witness ==
    \E i \in Tasks :
        /\ task[i].pc = "done"
        /\ task[i].stillCount >= 3
        /\ task[i].pollCount = task[i].stillCount + 1
        /\ task[i].serverData = "d2"

\* the schedule ended the retries of file i: a "still waiting" answer came
\* when more than the ceiling had elapsed since the schedule started
TimedOut(i) ==
    /\ task[i].lastReply.status = "still waiting"
    /\ task[i].elapsedAt > MaxElapsed

C3_TimeoutState ==
    \A i \in Tasks :
        TimedOut(i) =>
            /\ task[i].pc = "failed"
            /\ task[i].err = "RetryError"
            /\ phase = "rejected"
            /\ batchErr = "RetryError"

C3_TimeoutStep ==
    \A i \in Tasks : task[i].pc = "failed" => NoNewPoll(i)

C4_Original ==
    \A i \in Tasks :
        task[i].schedStart # -1 =>
            task[i].lastPollAt - task[i].schedStart <= MaxElapsed

\* the retries of file i ran until the schedule ended them
Exhausted(i) ==
    /\ task[i].pc = "failed"
    /\ task[i].err = "RetryError"

\* C5 (as claimed): the waits grow geometrically for a bounded number of
\* steps only and are the constant 1 s interval from some retry index on:
\* in a run of "still waiting" answers that lasts until the schedule ends,
\* there is an index from which every wait is the constant interval.
C5_Original ==
    \A i \in Tasks :
        Exhausted(i) =>
            \E n \in 1..Len(task[i].waits) :
                \A m \in n..Len(task[i].waits) : task[i].waits[m] = 1000

\* C6: the wait before the n-th retry is exactly 10ms * 4^(n-1):
\* 10, 40, 160, 640, ...; the 3rd wait is 160 ms.
C6_GeometricWaits ==
    \A i \in Tasks :
        /\ \A n \in 1..Len(task[i].waits) :
               task[i].waits[n] = 10 * 4 ^ (n - 1)
        /\ Len(task[i].waits) >= 3 => task[i].waits[3] = 160
        /\ Len(task[i].waits) = task[i].stillCount
              \/ (Exhausted(i) /\ Len(task[i].waits) + 1 = task[i].stillCount)

C6_Witness ==
    \E i \in Tasks :
        Len(task[i].waits) >= 4 /\ task[i].waits[4] = 640
            /\ task[i].pc = "polling"

\* a poll answer that does not decode, or has an unexpected status
Undecodable(i) == task[i].lastReply.status \in {"other status", "not json"}

\* C7: a poll whose answer fails to decode or carries a status other than
\* "done" / "still waiting" is never retried: the file's pipeline and the
\* call fail at that answer and no further poll is issued for the file.
C7_BadReplyState ==
    \A i \in Tasks :
        Undecodable(i) =>
            /\ task[i].pc = "failed"
            /\ task[i].err \in {"ParseError", "FetchError"}
            /\ phase = "rejected"

C7_BadReplyStep ==
    \A i \in Tasks : Undecodable(i) => NoNewPoll(i)

C7_BadReplyNotRetried == []C7_BadReplyState /\ [][C7_BadReplyStep]_vars

C7_Witness ==
    \E i \in Tasks :
        /\ task[i].lastReply.status = "other status"
        /\ task[i].stillCount >= 1
        /\ task[i].pollCount = task[i].stillCount + 1

\* C8: the call never yields a partial batch: it resolves with exactly one
\* UploadFileResponse per presigned descriptor, the i-th belonging to the
\* i-th descriptor, or it fails with one error and returns no results.
C8_NoPartialBatch ==
    /\ phase = "resolved" =>
          /\ Len(returned) = Len(presigneds)
          /\ batchErr = "none"
          /\ \A i \in 1..Len(presigneds) :
                /\ returned[i].key = i
                /\ returned[i].name = presigneds[i].fileName
                /\ returned[i].serverData = task[i].lastReply.callbackData
                /\ task[i].lastReply.status = "done"
    /\ phase = "rejected" => returned = << >> /\ batchErr # "none"
    /\ phase \in {"init", "running"} => returned = << >> /\ batchErr = "none"

C8_Witness ==
    /\ phase = "resolved"
    /\ Len(returned) >= 2
    /\ returned[1].serverData # returned[2].serverData

C9_FailState ==
    \A i \in Tasks :
        task[i].transportOk = "failed" =>
            /\ phase = "rejected"
            /\ returned = << >>
            /\ \A j \in Tasks :
                  j > i => task[j].pollCount = 0 /\ task[j].pc = "pending"

C9_FailStep ==
    (\E i \in Tasks : task[i].transportOk = "failed") =>
        \A j \in Tasks : NoNewPoll(j)

C10_Original ==
    \A i, j \in Tasks :
        (i < j /\ task[i].transportOk = "ok") => task[j].pc # "pending"


NoFileNamed(name) == \A k \in 1..Len(files) : files[k] # name

\* C11 (as claimed): a file of opts.files without a presigned descriptor of
\* its name makes the whole call fail with NOT_FOUND; the call never
\* succeeds without that file.
C11_Original ==
    (/\ Len(response) >= 1
     /\ \E k \in 1..Len(files) :
           \A i \in 1..Len(response) : response[i].fileName # files[k])
      => phase # "resolved"

\* C11 (amended): the lookup goes from the descriptor to the file: when
\* uploadFile runs for a descriptor whose fileName is the name of no file,
\* the whole call fails with NOT_FOUND, so a call only resolves when every
\* descriptor has a file, with one result per descriptor (a file without
\* descriptor is left out of the results and does not fail the call).
C11_DescriptorWithoutFile ==
    /\ \A i \in Tasks :
          (task[i].pc # "pending" /\ NoFileNamed(presigneds[i].fileName)) =>
              /\ task[i].pc = "failed"
              /\ task[i].err = "NOT_FOUND"
              /\ phase = "rejected"
              /\ batchErr = "NOT_FOUND"
    /\ phase = "resolved" =>
          /\ \A i \in Tasks : ~NoFileNamed(presigneds[i].fileName)
          /\ Len(returned) = Len(presigneds)

C11_Witness ==
    /\ Len(presigneds) = 2
    /\ task[1].pc = "done"
    /\ NoFileNamed(presigneds[2].fileName)
    /\ phase = "rejected"
    /\ batchErr = "NOT_FOUND"

\* C12: descriptor validation is all-or-nothing and precedes all upload
\* work: when an element of the server's answer does not decode, the call
\* fails and no pipeline exists for any descriptor: no onUploadBegin, no
\* transport and no poll for any file.
C12_InvalidDescriptorFailsAll ==
    (phase # "init" /\ \E i \in 1..Len(response) : response[i].kind \notin Kinds)
      => /\ phase = "rejected"
         /\ batchErr \in {"ParseError", "FetchError"}
         /\ presigneds = << >>
         /\ task = << >>
         /\ returned = << >>

C12_Witness ==
    /\ phase = "rejected"
    /\ batchErr = "ParseError"
    /\ Len(response) = 2
    /\ response[1].kind \in Kinds
    /\ response[2].kind \notin Kinds


\* the events of file i named e
EventsOf(i, e) ==
    {n \in 1..Len(task[i].events) : task[i].events[n].ev = e}

\* C13: for every descriptor whose pipeline starts a transport,
\* onUploadBegin is invoked exactly once, with the name of that file, and
\* before the transport is invoked.
C13_BeginOnceBeforeTransport ==
    \A i \in Tasks :
        task[i].transport # "none" =>
            /\ task[i].begun = 1
            /\ Cardinality(EventsOf(i, "onUploadBegin")) = 1
            /\ \A b \in EventsOf(i, "onUploadBegin") :
                  /\ task[i].events[b].arg = presigneds[i].fileName
                  /\ \A x \in EventsOf(i, "transport") : b < x

C13_Witness ==
    \E i \in Tasks :
        /\ task[i].pc = "transport"
        /\ task[i].begun = 1
        /\ i = 2
        /\ task[i].events[1] = [ev |-> "onUploadBegin", arg |-> "b"]

\* C14: an UploadFileResponse exists for a file only after a poll for it
\* returned "done"; its serverData is the callbackData of that answer, its
\* key the descriptor's key, its name and size those of the matched file
\* (the first file of opts.files with the descriptor's fileName).
C14_ResponseOnlyAfterDone ==
    \A i \in Tasks :
        /\ task[i].pc = "done" <=> task[i].result # NoResult
        /\ task[i].result # NoResult =>
              /\ task[i].lastReply.status = "done"
              /\ task[i].result.serverData = task[i].lastReply.callbackData
              /\ task[i].result.key = i
              /\ \E k \in 1..Len(files) :
                    /\ files[k] = presigneds[i].fileName
                    /\ \A m \in 1..(k - 1) : files[m] # presigneds[i].fileName
                    /\ task[i].result.name = files[k]
                    /\ task[i].result.size = 1000 + k

C14_Witness ==
    /\ Len(files) = 2
    /\ task # << >>
    /\ task[1].pc = "done"
    /\ task[1].result.name = files[2]
    /\ task[1].result.size = 1002
    /\ task[1].result.serverData = "d2"

\* C15: after a file's transport succeeded its first poll is issued only
\* when the fixed 500 ms delay has elapsed; no poll is issued for the file
\* between the success of the transport and the end of the delay.
C15_FirstPollAfterDelay ==
    \A i \in Tasks :
        /\ task[i].pollCount > 0 =>
              task[i].firstPollAt >= task[i].transportAt + 500
        /\ task[i].pc = "sleep" =>
              task[i].pollCount = 0 /\ task[i].transportOk = "ok"

C15_Witness ==
    \E i \in Tasks :
        /\ task[i].pollCount = 1
        /\ task[i].transportAt > 0
        /\ task[i].firstPollAt = task[i].transportAt + 500


\* the errors the error taxonomy names
ClassifiedErrors ==
    {"ProtocolError", "TransportError", "PollTimeoutError", "NOT_FOUND",
     "INTERNAL_CLIENT_ERROR"}

\* C16 (as claimed): every failure that escapes the call is a classified
\* error; a raw fetch failure, a schema decode failure or the retry marker
\* is wrapped before it reaches the caller.
C16_Original == phase = "rejected" => batchErr \in ClassifiedErrors

\* C17 (as claimed): once the caller has cancelled the running call, the
\* request in flight is aborted and no further poll is issued for any file
\* of the batch.
C17_CancelledState ==
    cancelRequested =>
        \A i \in Tasks : task[i].pc \notin {"transport", "polling"}

C17_CancelledStep ==
    cancelRequested => \A i \in Tasks : NoNewPoll(i)

C17_Original == []C17_CancelledState /\ [][C17_CancelledStep]_vars

\* C18: for each descriptor that has a file exactly one transport is
\* invoked, chosen by the descriptor's shape alone: the multipart transport
\* if and only if the descriptor has a urls field, the presigned POST
\* otherwise; a descriptor without a file gets none.
C18_OneTransportByShape ==
    \A i \in Tasks :
        /\ (task[i].pc # "pending" /\ ~NoFileNamed(presigneds[i].fileName)) =>
              /\ Cardinality(EventsOf(i, "transport")) = 1
              /\ \A x \in EventsOf(i, "transport") :
                    /\ task[i].events[x].arg = "mpu"
                          <=> presigneds[i].kind = "mpu"
                    /\ task[i].events[x].arg = "psp"
                          <=> presigneds[i].kind = "psp"
                    /\ task[i].transport = task[i].events[x].arg
        /\ NoFileNamed(presigneds[i].fileName) =>
              EventsOf(i, "transport") = {} /\ task[i].transport = "none"

C18_Witness ==
    /\ Len(presigneds) = 2
    /\ task[1].events # << >> /\ task[1].events[2].arg = "mpu"
    /\ task[2].events # << >> /\ task[2].events[2].arg = "psp"
    /\ presigneds[1].fileName = presigneds[2].fileName

\* C19 (as claimed): a descriptor whose fileName is the name of no file of
\* opts.files makes the call fail with NOT_FOUND (it fails with no other
\* error and never resolves), and neither onUploadBegin nor a transport nor
\* a poll is ever invoked for that descriptor.
C19_Original ==
    \A i \in Tasks :
        NoFileNamed(presigneds[i].fileName) =>
            /\ phase # "resolved"
            /\ phase = "rejected" => batchErr = "NOT_FOUND"
            /\ task[i].begun = 0
            /\ task[i].events = << >>
            /\ task[i].pollCount = 0

\* file j has not been touched: no callback, no transport, no poll
Untouched(j) ==
    /\ task[j].pc = "pending"
    /\ task[j].begun = 0
    /\ task[j].events = << >>
    /\ task[j].transport = "none"
    /\ task[j].pollCount = 0

\* C20: once the pipeline of a descriptor has failed (NOT_FOUND, transport
\* or poll failure) no onUploadBegin, transport or poll is started
\* afterwards for any descriptor, and the descriptors after the failed one
\* have never been touched.
C20_FailedState ==
    \A i \in Tasks :
        task[i].pc = "failed" => \A j \in Tasks : j > i => Untouched(j)

C20_FailedStep ==
    (\E i \in Tasks : task[i].pc = "failed") =>
        \A j \in Tasks :
            /\ task'[j].begun = task[j].begun
            /\ task'[j].events = task[j].events
            /\ NoNewPoll(j)

C20_NothingStartsAfterFailure == []C20_FailedState /\ [][C20_FailedStep]_vars

C20_Witness ==
    /\ Len(presigneds) = 2
    /\ task[1].pc = "failed"
    /\ task[1].err = "ParseError"
    /\ task[1].stillCount >= 1
    /\ Untouched(2)


\* ------------------------------------------------------------- liveness

\* some answer to the poll of file i comes back
PollReturns(i) ==
    /\ i \in Idx
    /\ \E reply \in PollReplies, d \in env.lat : PollResponse(i, reply, d)

\* the scheduler of the runtime: a sleep that is due ends, a request that
\* was sent is answered
PollFairness ==
    \A i \in 1..MaxBatch :
        /\ WF_vars(i \in Idx /\ FirstPoll(i))
        /\ WF_vars(PollReturns(i))
        /\ WF_vars(i \in Idx /\ RetryPoll(i))

\* the polling phase under fairness, for the file whose endpoint may answer
\* "still waiting" without end
LiveSpec == InitPoll /\ [][Next]_vars /\ PollFairness

InPollingPhase(i) ==
    i \in Idx /\ task[i].pc \in {"sleep", "polling", "backoff"}

PollingOver(i) == i \in Idx /\ task[i].pc \in {"done", "failed"}

\* C21: the polling phase of a file always terminates: when every poll
\* request returns, the retry loop stops after a finite number of polls (at
\* most 9) even if the server answers "still waiting" every time, and the
\* pipeline then ends in a failure.
C21_PollBound ==
    \A i \in Tasks :
        /\ task[i].pollCount <= 9
        /\ (task[i].pc \in {"done", "failed"} /\ task[i].pollCount > 0
              /\ task[i].lastReply.status # "done")
             => task[i].pc = "failed"

C21_PollingTerminates ==
    /\ []C21_PollBound
    /\ \A i \in 1..MaxBatch : InPollingPhase(i) ~> PollingOver(i)

C21_Witness ==
    \E i \in Tasks :
        /\ Exhausted(i)
        /\ task[i].pollCount = 9
        /\ task[i].stillCount = 9

\* C22 (as claimed): within one call each descriptor is paired with a
\* file of its own, so no file of opts.files is transported more than
\* once, also when several files (and their descriptors) share a name.
C22_Original ==
    Len(files) = Len(presigneds) =>
        \A i, j \in Tasks :
            (i # j /\ task[i].fileIdx # 0 /\ task[j].fileIdx # 0)
                => task[i].fileIdx # task[j].fileIdx

====
